---- MODULE Spec2Model ----
(***************************************************************************)
(* A model of github_release_summarizer: the PageAnalyzer text functions   *)
(* of analyzer.py.  Texts are TLA+ strings and every regular expression of *)
(* the source is evaluated character by character, as Python's re does.    *)
(* A release page is the element sequence BeautifulSoup yields in document *)
(* order: headings (tag, string) and lists (tag ul, the texts of its li).  *)
(***************************************************************************)
EXTENDS Integers, Sequences, FiniteSets, TLC

VARIABLES
    pc,              \* "start" before the call of the operation, "done" after
    document,        \* the parsed release page handed to the parser
    collected,       \* pull_requests as appended, before the sort
    pull_requests,   \* the list get_pull_requests_from_release returns
    content,         \* the text handed to get_l1_update / get_related_issues
    new_resources,   \* the list get_l1_update returns
    issues,          \* the list get_related_issues returns
    diff_content,    \* the diff handed to filter_diff
    exclude_pattern, \* the exclusion pattern handed to filter_diff
    filtered,        \* the string filter_diff returns
    raised,          \* the exception the call ended with, "none" if it returned
    written,         \* what the author of content / diff_content wrote, piece by piece
    fetch,           \* how requests.get ends: "ok", or the exception it raises
    comments_data,   \* the comment records handed to filter_comments_by_user
    comments,        \* the list filter_comments_by_user returns
    is_japanese,     \* the boolean validate_is_japanese returned last
    pr_index,        \* main: the position of the loop in pull_requests
    l1_updates,      \* main: the tokens gathered from the L1 pull requests
    japanese_authors,\* main: the dict of authors, in insertion order
    calls,           \* main: how often each collaborator was called
    processed,       \* main: what each iteration so far was given
    messages         \* main: the list built from japanese_authors

vars == <<pc, document, collected, pull_requests, content, new_resources,
          issues, diff_content, exclude_pattern, filtered, raised, written,
          fetch, comments_data, comments, is_japanese, pr_index, l1_updates,
          japanese_authors, calls, processed, messages>>

release_vars == <<document, collected, pull_requests>>
text_vars == <<content, new_resources, issues>>
diff_vars == <<diff_content, exclude_pattern, filtered>>
comment_vars == <<comments_data, comments>>

\* the state of the operations a specification does not run
NoRelease == document = <<>> /\ collected = <<>> /\ pull_requests = <<>> /\ fetch = "ok"
NoText == content = "" /\ new_resources = <<>> /\ issues = <<>>
NoDiff == diff_content = "" /\ exclude_pattern = "" /\ filtered = ""
NoComments == comments_data = <<>> /\ comments = <<>>

main_vars == <<is_japanese, pr_index, l1_updates, japanese_authors, calls, processed, messages>>

NoCalls == [get_issue |-> 0, get_related_issue |-> 0, get_diff |-> 0, get_user |-> 0,
            generate_summary |-> 0, generate_is_japanese |-> 0, report |-> 0]

NoMain ==
    /\ is_japanese = FALSE
    /\ pr_index = 1
    /\ l1_updates = <<>>
    /\ japanese_authors = <<>>
    /\ calls = NoCalls
    /\ processed = <<>>
    /\ messages = <<>>

----------------------------------------------------------------------------
(* Strings *)

Min(S) == CHOOSE x \in S : \A y \in S : x <= y

At(s, i) == IF i >= 1 /\ i <= Len(s) THEN SubSeq(s, i, i) ELSE ""

IsDigit(c) == c \in {"0", "1", "2", "3", "4", "5", "6", "7", "8", "9"}

\* \s of Python's re, and the characters str.strip() removes
IsSpace(c) == c \in {" ", "\t", "\n", "\r", "\f"}

\* a literal at position i
LitAt(s, i, lit) == i >= 1 /\ i + Len(lit) - 1 <= Len(s) /\ SubSeq(s, i, i + Len(lit) - 1) = lit

\* the end (exclusive) of the longest run of digits starting at i: \d* greedy
DigitsEnd(s, i) == Min({j \in i..(Len(s) + 1) : ~IsDigit(At(s, j))})

\* the end (exclusive) of the longest run of whitespace starting at i: \s* greedy
SpacesEnd(s, i) == Min({j \in i..(Len(s) + 1) : ~IsSpace(At(s, j))})

\* the end (exclusive) of the longest run of non-whitespace starting at i: \S* greedy
NonSpacesEnd(s, i) == Min({j \in i..(Len(s) + 1) : j > Len(s) \/ IsSpace(At(s, j))})

\* re.search of a literal pattern
SearchLit(lit, s) == \E i \in 1..(Len(s) + 1) : LitAt(s, i, lit)

\* str.strip()
Strip(s) ==
    LET keep == {i \in 1..Len(s) : ~IsSpace(At(s, i))}
    IN  IF keep = {} THEN ""
        ELSE SubSeq(s, Min(keep), CHOOSE i \in keep : \A j \in keep : j <= i)

RECURSIVE Concat(_)
Concat(seqs) == IF seqs = <<>> THEN <<>> ELSE Head(seqs) \o Concat(Tail(seqs))

----------------------------------------------------------------------------
(* analyzer.py: _get_pull_requests_in_section *)

\* " \(#\d+\)" at position p
PrSuffixAt(s, p) ==
    /\ LitAt(s, p, " (#")
    /\ DigitsEnd(s, p + 3) > p + 3
    /\ At(s, DigitsEnd(s, p + 3)) = ")"

\* re.search(r"(.*?) \(#\d+\)", pr_text): <<>> if there is no match,
\* <<group(1)>> otherwise.  "." matches no newline, so a start matches iff
\* some " (#digits)" lies behind it with no newline in between: the
\* leftmost such start is the one behind the last newline before the first
\* " (#digits)", and the lazy (.*?) then ends at that first one.
pr_title_match(pr_text) ==
    LET ends == {p \in 1..Len(pr_text) : PrSuffixAt(pr_text, p)}
    IN  IF ends = {} THEN <<>>
        ELSE LET p == Min(ends)
                 newlines == {k \in 1..(p - 1) : At(pr_text, k) = "\n"}
                 st == IF newlines = {} THEN 1
                       ELSE 1 + CHOOSE k \in newlines : \A m \in newlines : m <= k
             IN  <<SubSeq(pr_text, st, p - 1)>>

\* re.search(r"#(\d+)", pr_text): the leftmost "#" that a digit follows
pr_number_match(pr_text) ==
    LET hits == {i \in 1..Len(pr_text) : At(pr_text, i) = "#" /\ IsDigit(At(pr_text, i + 1))}
    IN  IF hits = {} THEN <<>>
        ELSE LET i == Min(hits)
             IN  <<SubSeq(pr_text, i + 1, DigitsEnd(pr_text, i + 1) - 1)>>

\* the body of the loop over ul.find_all("li"): zero or one (title, pr_number)
pr_of_item(item_text) ==
    LET pr_text == Strip(item_text)
        title_match == pr_title_match(pr_text)
        number_match == pr_number_match(pr_text)
    IN  IF title_match # <<>> /\ number_match # <<>>
        THEN << <<title_match[1], number_match[1]>> >>
        ELSE <<>>

\* section.find_next("ul"): the first ul after element i in document order
find_next_ul(doc, i) ==
    LET later == {j \in (i + 1)..Len(doc) : doc[j].tag = "ul"}
    IN  IF later = {} THEN 0 ELSE Min(later)

_get_pull_requests_in_section(doc, i) ==
    LET ul == find_next_ul(doc, i)
    IN  IF ul = 0 THEN <<>>
        ELSE Concat([k \in 1..Len(doc[ul].li) |-> pr_of_item(doc[ul].li[k])])

----------------------------------------------------------------------------
(* analyzer.py: get_pull_requests_from_release *)

PullRequest(category, title, pr_number) ==
    [category |-> category, title |-> title, pr_number |-> pr_number]

\* find_all without its tag filter
find_all_any_tag(doc, tag, pattern) ==
    SelectSeq([i \in 1..Len(doc) |-> i], LAMBDA i : SearchLit(pattern, doc[i].string))

\* soup.find_all(tag, string=re.compile(pattern)): the positions, in order
find_all(doc, tag, pattern) ==
    SelectSeq([i \in 1..Len(doc) |-> i],
              LAMBDA i : doc[i].tag = tag /\ SearchLit(pattern, doc[i].string))

\* an "Alpha modules" h2 anywhere in the page, not only before the section
is_alpha_anywhere(doc, i) ==
    \E j \in 1..Len(doc) : doc[j].tag = "h2" /\ SearchLit("Alpha modules", doc[j].string)

\* section.find_previous("h2", string=re.compile("Alpha modules")) is not None
is_alpha(doc, i) ==
    \E j \in 1..(i - 1) : doc[j].tag = "h2" /\ SearchLit("Alpha modules", doc[j].string)

\* re.match(r"^update L1 CloudFormation resource definitions", title)
is_l1_title(title) == LitAt(title, 1, "update L1 CloudFormation resource definitions")

\* the alpha test ahead of the L1 test
feature_category_alpha_first(doc, i, title) ==
    IF is_alpha(doc, i) THEN "alpha feature"
    ELSE IF is_l1_title(title) THEN "L1" ELSE "feature"

feature_category(doc, i, title) ==
    IF is_l1_title(title) THEN "L1"
    ELSE IF is_alpha(doc, i) THEN "alpha feature" ELSE "feature"

\* the L1 special case of the Features loop copied into the Bug Fixes loop
bug_fix_category_with_l1(doc, i, title) ==
    IF is_l1_title(title) THEN "L1"
    ELSE IF is_alpha(doc, i) THEN "alpha bug fix" ELSE "bug fix"

bug_fix_category(doc, i, title) ==
    IF is_alpha(doc, i) THEN "alpha bug fix" ELSE "bug fix"

features_of_section(doc, i) ==
    LET prs == _get_pull_requests_in_section(doc, i)
    IN  [k \in 1..Len(prs) |->
            PullRequest(feature_category(doc, i, prs[k][1]), prs[k][1], prs[k][2])]

bug_fixes_of_section(doc, i) ==
    LET prs == _get_pull_requests_in_section(doc, i)
    IN  [k \in 1..Len(prs) |->
            PullRequest(bug_fix_category(doc, i, prs[k][1]), prs[k][1], prs[k][2])]

\* pull_requests after the two loops, before the sort
appended_pull_requests(doc) ==
    LET features_sections == find_all(doc, "h3", "Features")
        bf_sections == find_all(doc, "h3", "Bug Fixes")
    IN  Concat([n \in 1..Len(features_sections) |->
                   features_of_section(doc, features_sections[n])])
        \o Concat([n \in 1..Len(bf_sections) |->
                   bug_fixes_of_section(doc, bf_sections[n])])

category_order(category) ==
    CASE category = "feature" -> 1
      [] category = "L1" -> 2
      [] category = "bug fix" -> 3
      [] category = "alpha feature" -> 4
      [] category = "alpha bug fix" -> 5

\* an unstable sort: an element goes ahead of the elements of equal key
RECURSIVE sort_unstable(_)
sort_unstable(prs) ==
    IF prs = <<>> THEN <<>>
    ELSE LET before == sort_unstable(SubSeq(prs, 1, Len(prs) - 1))
             x == prs[Len(prs)]
             keep == {k \in 0..Len(before) :
                         \A m \in 1..k : category_order(before[m].category)
                                             < category_order(x.category)}
             at == CHOOSE k \in keep : \A m \in keep : m <= k
         IN  SubSeq(before, 1, at) \o <<x>> \o SubSeq(before, at + 1, Len(before))

\* list.sort(key=...): a stable sort, here by insertion from the left; an
\* element goes behind every element whose key is not greater
RECURSIVE sort_by_category(_)
sort_by_category(prs) ==
    IF prs = <<>> THEN <<>>
    ELSE LET before == sort_by_category(SubSeq(prs, 1, Len(prs) - 1))
             x == prs[Len(prs)]
             keep == {k \in 0..Len(before) :
                         \A m \in 1..k : category_order(before[m].category)
                                             <= category_order(x.category)}
             at == CHOOSE k \in keep : \A m \in keep : m <= k
         IN  SubSeq(before, 1, at) \o <<x>> \o SubSeq(before, at + 1, Len(before))


\* the failure of requests.get caught and an empty list returned
get_pull_requests_from_release_swallowing(response, doc) ==
    IF response # "ok"
    THEN [raised |-> "none", collected |-> <<>>, pull_requests |-> <<>>]
    ELSE LET appended == appended_pull_requests(doc)
         IN  [raised |-> "none", collected |-> appended,
              pull_requests |-> sort_by_category(appended)]

\* the call's outcome.  requests.get(url) is the first statement and stands
\* in no try block: the exception it raises leaves the function at once.
\* Otherwise the page is parsed, the entries are appended and sorted.
get_pull_requests_from_release(response, doc) ==
    IF response # "ok"
    THEN [raised |-> response, collected |-> <<>>, pull_requests |-> <<>>]
    ELSE LET appended == appended_pull_requests(doc)
         IN  [raised |-> "none", collected |-> appended,
              pull_requests |-> sort_by_category(appended)]

----------------------------------------------------------------------------
(* analyzer.py: filter_comments_by_user *)

\* the type test turned into "is not a bot"
is_user_comment_not_bot(comment) == comment.user.type # "Bot"

\* comment["user"]["type"] == "User"
is_user_comment(comment) == comment.user.type = "User"

RECURSIVE filter_comments_by_user(_)
filter_comments_by_user(data) ==
    IF data = <<>> THEN <<>>
    ELSE (IF is_user_comment(Head(data)) THEN <<Head(data).body>> ELSE <<>>)
         \o filter_comments_by_user(Tail(data))

----------------------------------------------------------------------------
(* analyzer.py: get_l1_update *)

\* r"\[\+\]\s+<word>\s+(\S+)" tried at position i: <<>> if it does not match
\* there, <<group(1), end of the match (exclusive)>> otherwise.  Each greedy
\* run can only end where the run ends: what follows \s+ is no whitespace.
addition_match_at(s, i, word) ==
    LET a == SpacesEnd(s, i + 3)
        b == SpacesEnd(s, a + Len(word))
        c == NonSpacesEnd(s, b)
    IN  IF /\ LitAt(s, i, "[+]")
           /\ a > i + 3
           /\ LitAt(s, a, word)
           /\ b > a + Len(word)
           /\ c > b
        THEN <<SubSeq(s, b, c - 1), c>>
        ELSE <<>>

\* re.findall of that pattern from position i on: the groups of the
\* non-overlapping matches, left to right
RECURSIVE findall_additions(_, _, _)
findall_additions(s, i, word) ==
    IF i > Len(s) THEN <<>>
    ELSE LET m == addition_match_at(s, i, word)
         IN  IF m = <<>> THEN findall_additions(s, i + 1, word)
             ELSE <<m[1]>> \o findall_additions(s, m[2], word)

\* the two loops in the other order
get_l1_update_services_first(text) ==
    findall_additions(text, 1, "service") \o findall_additions(text, 1, "resource")

get_l1_update(text) ==
    findall_additions(text, 1, "resource") \o findall_additions(text, 1, "service")

----------------------------------------------------------------------------
(* analyzer.py: get_related_issues *)

UpperCase == "ABCDEFGHIJKLMNOPQRSTUVWXYZ"
LowerCase == "abcdefghijklmnopqrstuvwxyz"

\* the lower-case form of a character, as re.IGNORECASE compares letters
LowerChar(c) ==
    LET at == {k \in 1..Len(UpperCase) : At(UpperCase, k) = c}
    IN  IF at = {} THEN c ELSE At(LowerCase, CHOOSE k \in at : TRUE)

\* a literal at position i, letter case ignored
LitAtIgnoreCase(s, i, lit) ==
    /\ i >= 1
    /\ i + Len(lit) - 1 <= Len(s)
    /\ \A k \in 1..Len(lit) : LowerChar(At(s, i + k - 1)) = At(lit, k)

\* the positions behind an optional [sd] tried at position e
OptionalSD(s, e) == {e} \cup (IF LowerChar(At(s, e)) \in {"s", "d"} THEN {e + 1} ELSE {})

\* the positions behind a match of (close[sd]?|fixe?[sd]?|resolve[sd]?) at i
verb_ends(s, i) ==
    (IF LitAtIgnoreCase(s, i, "close") THEN OptionalSD(s, i + 5) ELSE {})
    \cup (IF LitAtIgnoreCase(s, i, "fix")
          THEN OptionalSD(s, i + 3)
               \cup (IF LowerChar(At(s, i + 3)) = "e" THEN OptionalSD(s, i + 4) ELSE {})
          ELSE {})
    \cup (IF LitAtIgnoreCase(s, i, "resolve") THEN OptionalSD(s, i + 7) ELSE {})

\* the whole pattern tried at position i: <<>> if it does not match there,
\* <<group(2), end of the match (exclusive)>> otherwise.  At most one verb
\* end is followed by " #".
issue_match_at(s, i) ==
    LET ends == {e \in verb_ends(s, i) : LitAt(s, e, " #") /\ IsDigit(At(s, e + 2))}
    IN  IF ends = {} THEN <<>>
        ELSE LET e == CHOOSE x \in ends : TRUE
             IN  <<SubSeq(s, e + 2, DigitsEnd(s, e + 2) - 1), DigitsEnd(s, e + 2)>>

RECURSIVE findall_issues(_, _)
findall_issues(s, i) ==
    IF i > Len(s) THEN <<>>
    ELSE LET m == issue_match_at(s, i)
         IN  IF m = <<>> THEN findall_issues(s, i + 1)
             ELSE <<m[1]>> \o findall_issues(s, m[2])

get_related_issues(text) == findall_issues(text, 1)

----------------------------------------------------------------------------
(* analyzer.py: filter_diff *)

\* The exclusion pattern as re compiles it: the atoms of the pattern, the
\* atom "error" ending it where re.compile fails.  A backslash makes the next character a literal, "." stands for
\* any character but a newline, a "[" that no "]" closes is an error
\* (re.error: unterminated character set), as is a backslash at the end.
RECURSIVE regex_atoms(_, _)
regex_atoms(pattern, i) ==
    IF i > Len(pattern) THEN <<>>
    ELSE IF At(pattern, i) = "\\"
         THEN IF i = Len(pattern) THEN <<[any |-> FALSE, ch |-> "error"]>>
              ELSE <<[any |-> FALSE, ch |-> At(pattern, i + 1)]>> \o regex_atoms(pattern, i + 2)
    ELSE IF At(pattern, i) = "["
         THEN <<[any |-> FALSE, ch |-> "error"]>>
    ELSE IF At(pattern, i) = "."
         THEN <<[any |-> TRUE, ch |-> ""]>> \o regex_atoms(pattern, i + 1)
    ELSE <<[any |-> FALSE, ch |-> At(pattern, i)]>> \o regex_atoms(pattern, i + 1)

regex_error(pattern) ==
    \E k \in 1..Len(regex_atoms(pattern, 1)) : regex_atoms(pattern, 1)[k].ch = "error"

\* re.search(pattern, line) for a pattern that compiles
regex_search(pattern, line) ==
    LET atoms == regex_atoms(pattern, 1)
    IN  \E i \in 1..(Len(line) + 1) :
            /\ i + Len(atoms) - 1 <= Len(line)
            /\ \A k \in 1..Len(atoms) :
                  IF atoms[k].any THEN At(line, i + k - 1) # "\n"
                  ELSE At(line, i + k - 1) = atoms[k].ch

\* every occurrence of the marker, at the start of a line or not
marker_positions_unanchored(diff) ==
    SelectSeq([i \in 1..Len(diff) |-> i], LAMBDA i : LitAt(diff, i, "diff --git"))

\* the first chunk made to start at the start of the text
marker_positions_from_start(diff) ==
    LET found == SelectSeq([i \in 1..Len(diff) |-> i],
                           LAMBDA i : LitAt(diff, i, "diff --git") /\ (i = 1 \/ At(diff, i - 1) = "\n"))
    IN  [n \in 1..Len(found) |-> IF n = 1 THEN 1 ELSE found[n]]

\* [m.start() for m in re.finditer(r"^diff --git", diff, re.MULTILINE)]:
\* "^" is the start of the text or the place behind a newline
marker_positions(diff) ==
    SelectSeq([i \in 1..Len(diff) |-> i],
              LAMBDA i : LitAt(diff, i, "diff --git") /\ (i = 1 \/ At(diff, i - 1) = "\n"))

\* the whole chunk taken for its first line
first_line_whole_chunk(chunk) == chunk

\* chunk.split("\n")[0]
first_line(chunk) ==
    LET newlines == {k \in 1..Len(chunk) : At(chunk, k) = "\n"}
    IN  IF newlines = {} THEN chunk ELSE SubSeq(chunk, 1, Min(newlines) - 1)

\* the chunks kept joined by "\n".join instead of "".join
RECURSIVE filtered_chunks_newline_joined(_, _, _, _)
filtered_chunks_newline_joined(diff, positions, i, pattern) ==
    IF i > Len(positions) THEN ""
    ELSE LET start == positions[i]
             end == IF i < Len(positions) THEN positions[i + 1] - 1 ELSE Len(diff)
             chunk == SubSeq(diff, start, end)
             kept == IF ~regex_search(pattern, first_line(chunk)) THEN chunk ELSE ""
             rest == filtered_chunks_newline_joined(diff, positions, i + 1, pattern)
         IN  kept \o (IF kept # "" /\ rest # "" THEN "\n" ELSE "") \o rest

\* the loop over the chunks from chunk i on: the chunks kept, joined.  Called
\* only with a pattern that compiles.
RECURSIVE filtered_chunks(_, _, _, _)
filtered_chunks(diff, positions, i, pattern) ==
    IF i > Len(positions) THEN ""
    ELSE LET start == positions[i]
             end == IF i < Len(positions) THEN positions[i + 1] - 1 ELSE Len(diff)
             chunk == SubSeq(diff, start, end)
         IN  (IF Strip(chunk) = "" THEN ""
              ELSE IF ~regex_search(pattern, first_line(chunk)) THEN chunk
              ELSE "")
             \o filtered_chunks(diff, positions, i + 1, pattern)

\* the call's outcome: the string returned, or the re.error the first
\* re.search raises
filter_diff(diff, pattern) ==
    LET positions == marker_positions(diff)
    IN  IF Len(positions) = 0 THEN [raised |-> "none", value |-> diff]
        ELSE IF regex_error(pattern) THEN [raised |-> "re.error", value |-> ""]
        ELSE [raised |-> "none", value |-> filtered_chunks(diff, positions, 1, pattern)]

----------------------------------------------------------------------------
(* The release pages the parser is run on *)

MaxDocLen == 4

Heading(tag, string) == [tag |-> tag, string |-> string, li |-> <<>>]
Ul(li) == [tag |-> "ul", string |-> "", li |-> li]

L1Prefix == "update L1 CloudFormation resource definitions"

\* a list item as the release notes write it, "<title> (#<number>)", between
\* the whitespace the markup leaves around it
Item(lead, title, pr, trail) ==
    [text |-> lead \o title \o " (#" \o pr \o ")" \o trail,
     title |-> title, pr |-> pr, wellformed |-> TRUE]

\* a list item without a pull request number
Plain(text) == [text |-> text, title |-> "", pr |-> "", wellformed |-> FALSE]

ItemA == Item("", "add A", "1", "")
ItemL1 == Item("", L1Prefix, "2", "")
ItemB == Item("\n  ", "add B", "3", "\n")
ItemRef == Item("", "fix #12 crash", "34", "")
ItemPlain == Plain("no number")
ItemL1Extra == Item("", L1Prefix \o " extra text", "9", "")

WrittenItems == {ItemA, ItemL1, ItemB, ItemRef, ItemPlain, ItemL1Extra}

\* the lists of the pages
UlMixed == Ul(<<ItemA.text, ItemL1.text, ItemB.text>>)
UlOdd == Ul(<<ItemRef.text, ItemPlain.text, ItemL1Extra.text>>)

Elements ==
    {Heading("h2", "Alpha modules"), Heading("h2", "Features"),
     Heading("h3", "Features"), Heading("h3", "Bug Fixes"),
     Heading("h3", "Alpha modules"), UlMixed, UlOdd}

Documents == UNION {[1..n -> Elements] : n \in 0..MaxDocLen}

----------------------------------------------------------------------------
(* Specification of the release parser *)

InitRelease ==
    /\ pc = "start"
    /\ document \in Documents
    /\ collected = <<>>
    /\ pull_requests = <<>>
    /\ content = ""
    /\ new_resources = <<>>
    /\ issues = <<>>
    /\ diff_content = ""
    /\ exclude_pattern = ""
    /\ filtered = ""
    /\ raised = "none"
    /\ written = <<>>
    /\ fetch = "ok"
    /\ NoComments
    /\ NoMain

CallGetPullRequestsFromRelease ==
    /\ pc = "start"
    /\ LET outcome == get_pull_requests_from_release(fetch, document)
       IN  /\ collected' = outcome.collected
           /\ pull_requests' = outcome.pull_requests
           /\ raised' = outcome.raised
    /\ pc' = "done"
    /\ UNCHANGED <<document, written, fetch>>
    /\ UNCHANGED text_vars
    /\ UNCHANGED diff_vars
    /\ UNCHANGED comment_vars
    /\ UNCHANGED main_vars

NextRelease == CallGetPullRequestsFromRelease

SpecRelease == InitRelease /\ [][NextRelease]_vars

----------------------------------------------------------------------------
(* The texts the extractors are run on: pieces written one after another *)

MaxAdditions == 3
MaxReferences == 2

RECURSIVE JoinTexts(_, _)
JoinTexts(pieces, sep) ==
    IF pieces = <<>> THEN ""
    ELSE IF Len(pieces) = 1 THEN pieces[1].text
    ELSE pieces[1].text \o sep \o JoinTexts(Tail(pieces), sep)

PiecesOf(S, n) == UNION {[1..k -> S] : k \in 0..n}

\* a line of an L1 update's description: "[+] resource <token>"
Addition(gap, kind, gap2, token) ==
    [text |-> "[+]" \o gap \o kind \o gap2 \o token, kind |-> kind, token |-> token]

\* a line that adds nothing
NoAddition(text) == [text |-> text, kind |-> "none", token |-> ""]

Additions ==
    {Addition(" ", "resource", " ", "AWS::EC2::Instance"),
     Addition(" ", "service", " ", "AWS::Lambda"),
     Addition("\t", "resource", "\n  ", "Resource1"),
     Addition("  ", "service", "   ", "Service1"),
     NoAddition("[+] resourceInvalidFormat"),
     NoAddition("[+]service Glued"),
     NoAddition("[-] resource Removed")}

\* a sentence part of a pull request's description: "<word> #<number>"
UpperOf(word) ==
    LET up(c) == LET at == {k \in 1..Len(LowerCase) : At(LowerCase, k) = c}
                 IN  IF at = {} THEN c ELSE At(UpperCase, CHOOSE k \in at : TRUE)
        F[k \in 0..Len(word)] == IF k = 0 THEN "" ELSE F[k - 1] \o up(At(word, k))
    IN  F[Len(word)]

NumberWith(word) ==
    CASE LitAt(word, 1, "clos") -> "12"
      [] LitAt(word, 1, "fix") -> "456"
      [] LitAt(word, 1, "resolve") \/ LitAt(word, 1, "Resolve") -> "7"
      [] OTHER -> "99"

Reference(word, upper) ==
    [text |-> (IF upper THEN UpperOf(word) ELSE word)
                 \o (IF word = "" THEN "" ELSE " ") \o "#" \o NumberWith(word),
     word |-> word, number |-> NumberWith(word)]

\* the nine closing verbs, and words that are none of them
ClosingVerbs ==
    {"close", "closes", "closed", "fix", "fixes", "fixed", "resolve", "resolves", "resolved"}

OtherWords == {"", "see", "closing", "fixs"}

References == {Reference(word, upper) : word \in ClosingVerbs \cup OtherWords, upper \in BOOLEAN}

----------------------------------------------------------------------------
(* Specification of get_l1_update *)

InitL1 ==
    /\ pc = "start"
    /\ written \in PiecesOf(Additions, MaxAdditions)
    /\ content = JoinTexts(written, " ")
    /\ new_resources = <<>>
    /\ issues = <<>>
    /\ document = <<>>
    /\ collected = <<>>
    /\ pull_requests = <<>>
    /\ diff_content = ""
    /\ exclude_pattern = ""
    /\ filtered = ""
    /\ raised = "none"
    /\ fetch = "ok"
    /\ NoComments
    /\ NoMain

CallGetL1Update ==
    /\ pc = "start"
    /\ new_resources' = get_l1_update(content)
    /\ pc' = "done"
    /\ UNCHANGED <<content, issues, raised, written, fetch>>
    /\ UNCHANGED release_vars
    /\ UNCHANGED diff_vars
    /\ UNCHANGED comment_vars
    /\ UNCHANGED main_vars

NextL1 == CallGetL1Update

SpecL1 == InitL1 /\ [][NextL1]_vars

----------------------------------------------------------------------------
(* Specification of get_related_issues *)

InitIssues ==
    /\ pc = "start"
    /\ written \in PiecesOf(References, MaxReferences)
    /\ content = "This " \o JoinTexts(written, " and ") \o "."
    /\ new_resources = <<>>
    /\ issues = <<>>
    /\ document = <<>>
    /\ collected = <<>>
    /\ pull_requests = <<>>
    /\ diff_content = ""
    /\ exclude_pattern = ""
    /\ filtered = ""
    /\ raised = "none"
    /\ fetch = "ok"
    /\ NoComments
    /\ NoMain

CallGetRelatedIssues ==
    /\ pc = "start"
    /\ issues' = get_related_issues(content)
    /\ pc' = "done"
    /\ UNCHANGED <<content, new_resources, raised, written, fetch>>
    /\ UNCHANGED release_vars
    /\ UNCHANGED diff_vars
    /\ UNCHANGED comment_vars
    /\ UNCHANGED main_vars

NextIssues == CallGetRelatedIssues

SpecIssues == InitIssues /\ [][NextIssues]_vars

----------------------------------------------------------------------------
(* Specification of get_related_issues on references written with a space,
   a tab or a newline behind the verb *)

Separated(word, separator) ==
    [text |-> word \o separator \o "#" \o NumberWith(word),
     word |-> word, separator |-> separator, number |-> NumberWith(word)]

SeparatedReferences ==
    {Separated(word, separator) : word \in {"closes", "fix", "Resolved"},
                                  separator \in {" ", "\t", "\n"}}

InitSeparators ==
    /\ pc = "start"
    /\ written \in PiecesOf(SeparatedReferences, MaxReferences)
    /\ content = "This " \o JoinTexts(written, " and ") \o "."
    /\ new_resources = <<>>
    /\ issues = <<>>
    /\ raised = "none"
    /\ NoRelease
    /\ NoDiff
    /\ NoComments
    /\ NoMain

SpecSeparators == InitSeparators /\ [][NextIssues]_vars

----------------------------------------------------------------------------
(* The diffs the filter is run on: lines written one after another *)

MaxLines == 4

\* a line of a diff: a "diff --git" header with its path, or a line of a
\* file's changes
Header(path) ==
    [text |-> "diff --git a/" \o path \o " b/" \o path \o "\n", header |-> TRUE, path |-> path]
Body(text) == [text |-> text \o "\n", header |-> FALSE, path |-> ""]

DiffLines ==
    {Header("lib/a.py"), Header("t/x.snapshot"),
     Body("+lib/a.snapshot"), Body(" diff --git a/lib/a.py b/t/x.snapshot")}

\* the default pattern, one with a wildcard, one that does not compile
ExcludePatterns == {"\\.snapshot", "lib.a", "["}

----------------------------------------------------------------------------
(* Specification of filter_diff *)

InitDiff ==
    /\ pc = "start"
    /\ written \in PiecesOf(DiffLines, MaxLines)
    /\ diff_content = JoinTexts(written, "")
    /\ exclude_pattern \in ExcludePatterns
    /\ filtered = ""
    /\ raised = "none"
    /\ content = ""
    /\ new_resources = <<>>
    /\ issues = <<>>
    /\ document = <<>>
    /\ collected = <<>>
    /\ pull_requests = <<>>
    /\ fetch = "ok"
    /\ NoComments
    /\ NoMain

CallFilterDiff ==
    /\ pc = "start"
    /\ filtered' = filter_diff(diff_content, exclude_pattern).value
    /\ raised' = filter_diff(diff_content, exclude_pattern).raised
    /\ pc' = "done"
    /\ UNCHANGED <<diff_content, exclude_pattern, written, fetch>>
    /\ UNCHANGED release_vars
    /\ UNCHANGED text_vars
    /\ UNCHANGED comment_vars
    /\ UNCHANGED main_vars

\* the filter run on its own output, with the same pattern
CallFilterDiffAgain ==
    /\ pc = "done"
    /\ raised = "none"
    /\ diff_content' = filtered
    /\ filtered' = filter_diff(filtered, exclude_pattern).value
    /\ raised' = filter_diff(filtered, exclude_pattern).raised
    /\ pc' = "again"
    /\ UNCHANGED <<exclude_pattern, written, fetch>>
    /\ UNCHANGED release_vars
    /\ UNCHANGED text_vars
    /\ UNCHANGED comment_vars
    /\ UNCHANGED main_vars

NextDiff == CallFilterDiff \/ CallFilterDiffAgain

SpecDiff == InitDiff /\ [][NextDiff]_vars

----------------------------------------------------------------------------
(* bedrock_client.py: validate_is_japanese *)

\* re.match(r"^[01]$", text): the text starts with "0" or "1", and behind it
\* $ matches at the end of the text or ahead of a newline that ends the text
is_zero_or_one(text) ==
    /\ Len(text) >= 1
    /\ At(text, 1) \in {"0", "1"}
    /\ \/ Len(text) = 1
       \/ Len(text) = 2 /\ At(text, 2) = "\n"

validate_is_japanese(text) ==
    IF ~is_zero_or_one(text)
    THEN [raised |-> "AssertionError", value |-> FALSE]
    ELSE [raised |-> "none", value |-> (text = "1")]

----------------------------------------------------------------------------
(* Specification of validate_is_japanese *)

MaxTextLen == 3

ResponseChars == {"0", "1", "\n", " ", "x"}

RECURSIVE Texts(_)
Texts(n) ==
    IF n = 0 THEN {""}
    ELSE Texts(n - 1) \cup {text \o c : text \in Texts(n - 1), c \in ResponseChars}

InitValidate ==
    /\ pc = "start"
    /\ content \in Texts(MaxTextLen)
    /\ new_resources = <<>>
    /\ issues = <<>>
    /\ raised = "none"
    /\ written = <<>>
    /\ NoRelease
    /\ NoDiff
    /\ NoComments
    /\ NoMain

CallValidateIsJapanese ==
    /\ pc = "start"
    /\ is_japanese' = validate_is_japanese(content).value
    /\ raised' = validate_is_japanese(content).raised
    /\ pc' = "done"
    /\ UNCHANGED <<written, fetch, pr_index, l1_updates, japanese_authors, calls,
                   processed, messages>>
    /\ UNCHANGED release_vars
    /\ UNCHANGED text_vars
    /\ UNCHANGED diff_vars
    /\ UNCHANGED comment_vars

NextValidate == CallValidateIsJapanese

SpecValidate == InitValidate /\ [][NextValidate]_vars

----------------------------------------------------------------------------
(* Specification of the release parser with a fetch that may fail *)

FetchOutcomes == {"ok", "RequestException", "ConnectionError"}

\* a failed fetch brings no page
InitFetch ==
    /\ pc = "start"
    /\ fetch \in FetchOutcomes
    /\ document \in (IF fetch = "ok" THEN Documents ELSE {<<>>})
    /\ collected = <<>>
    /\ pull_requests = <<>>
    /\ raised = "none"
    /\ written = <<>>
    /\ NoText
    /\ NoDiff
    /\ NoComments
    /\ NoMain

SpecFetch == InitFetch /\ [][NextRelease]_vars

----------------------------------------------------------------------------
(* Specification of filter_comments_by_user *)

MaxComments == 3

Comment(type, body) == [user |-> [type |-> type], body |-> body]

Comments == {Comment(type, body) : type \in {"User", "Bot", "Organization"},
                                   body \in {"", "LGTM"}}

InitComments ==
    /\ pc = "start"
    /\ comments_data \in PiecesOf(Comments, MaxComments)
    /\ comments = <<>>
    /\ raised = "none"
    /\ written = <<>>
    /\ NoRelease
    /\ NoText
    /\ NoDiff
    /\ NoMain

CallFilterCommentsByUser ==
    /\ pc = "start"
    /\ comments' = filter_comments_by_user(comments_data)
    /\ pc' = "done"
    /\ UNCHANGED <<comments_data, raised, written, fetch>>
    /\ UNCHANGED release_vars
    /\ UNCHANGED text_vars
    /\ UNCHANGED diff_vars
    /\ UNCHANGED main_vars

NextComments == CallFilterCommentsByUser

SpecComments == InitComments /\ [][NextComments]_vars

----------------------------------------------------------------------------
(* main.py: main *)

\* the test of the L1 branch made on the title
is_l1_update_by_title(pr) == is_l1_title(pr.title)

\* pr.category == "L1"
is_l1_update(pr) == pr.category = "L1"

\* the twitter_username of a user who gave none is null in the API's answer
None == "<None>"

\* the truth value of author_twitter in "if author_twitter and is_japanese"
is_truthy(value) == value # None /\ value # ""

\* japanese_authors.get(author_twitter), None read as 0: both are false
authors_get(authors, author) ==
    LET at == {k \in 1..Len(authors) : authors[k].author = author}
    IN  IF at = {} THEN 0 ELSE authors[CHOOSE k \in at : TRUE].count

\* the entry set to 1 whether the author is in the dict or not
count_author_without_increment(authors, author) ==
    IF \E k \in 1..Len(authors) : authors[k].author = author
    THEN [k \in 1..Len(authors) |->
             IF authors[k].author = author THEN [authors[k] EXCEPT !.count = 1]
             ELSE authors[k]]
    ELSE Append(authors, [author |-> author, count |-> 1])

\* if japanese_authors.get(a): japanese_authors[a] += 1
\* else: japanese_authors[a] = 1, a new key going behind the keys there are
count_author(authors, author) ==
    IF authors_get(authors, author) # 0
    THEN [k \in 1..Len(authors) |->
             IF authors[k].author = author THEN [authors[k] EXCEPT !.count = @ + 1]
             ELSE authors[k]]
    ELSE IF \E k \in 1..Len(authors) : authors[k].author = author
    THEN [k \in 1..Len(authors) |->
             IF authors[k].author = author THEN [authors[k] EXCEPT !.count = 1]
             ELSE authors[k]]
    ELSE Append(authors, [author |-> author, count |-> 1])

\* try: validate_is_japanese(text)  except AssertionError: is_japanese = False
is_japanese_of(text) ==
    IF validate_is_japanese(text).raised = "AssertionError" THEN FALSE
    ELSE validate_is_japanese(text).value

\* the dict after lines 86-94
authors_after(authors, pr, author_twitter, japanese) ==
    IF is_truthy(author_twitter) /\ japanese
    THEN IF pr.category = "feature" THEN authors
         ELSE count_author(authors, author_twitter)
    ELSE authors

\* lines 107-114
messages_of(authors) ==
    [k \in 1..Len(authors) |->
        IF authors[k].count > 1
        THEN "@" \o authors[k].author \o " (" \o ToString(authors[k].count) \o "件)"
        ELSE "@" \o authors[k].author]

----------------------------------------------------------------------------
(* Specification of main's loop over the pull requests of a release *)

MaxPRs == 2

\* the list get_pull_requests_from_release returned: sorted by category; an
\* entry of the Features section whose title is the L1 phrase is L1, one of
\* the Bug Fixes section keeps its section's category
TitleOf(category) ==
    CASE category = "feature" -> "add A"
      [] category = "L1" -> L1Prefix
      [] category = "bug fix" -> "fix #12 crash"
      [] category = "alpha feature" -> "add B"
      [] category = "alpha bug fix" -> L1Prefix \o " extra text"

Categories == {"feature", "L1", "bug fix", "alpha feature", "alpha bug fix"}

PullRequestLists ==
    {[k \in 1..Len(cats) |-> PullRequest(cats[k], TitleOf(cats[k]), ToString(100 + k))] :
        cats \in {c \in PiecesOf(Categories, MaxPRs) :
                     \A k \in 1..(Len(c) - 1) : category_order(c[k]) <= category_order(c[k + 1])}}

\* issue["body"]: additions and references written one after another
Description(additions, references) ==
    [text |-> JoinTexts(additions, "\n") \o "\n" \o JoinTexts(references, " "),
     additions |-> additions, references |-> references]

Descriptions ==
    {Description(<<>>, <<Reference("see", FALSE)>>),
     Description(<<Addition(" ", "service", " ", "S1"), Addition(" ", "resource", " ", "R1")>>,
                 <<Reference("fixes", FALSE), Reference("closed", TRUE)>>)}

\* the author of a pull request: user["twitter_username"], and the text
\* generate_is_japanese answers for user["location"] (temperature 0.0: one
\* answer per location)
User(twitter_username, response) ==
    [twitter_username |-> twitter_username, response |-> response]

Users ==
    {User(None, "1"), User("", "1"), User("a", "1"), User("a", "0"), User("a", "yes"),
     User("a", "1\n"), User("b", "1")}

InitMain ==
    /\ pc = "loop"
    /\ pull_requests \in PullRequestLists
    /\ document = <<>>
    /\ collected = <<>>
    /\ fetch = "ok"
    /\ raised = "none"
    /\ written = <<>>
    /\ NoText
    /\ NoDiff
    /\ NoComments
    /\ NoMain

\* an iteration of the loop on an L1 pull request
ReadL1Update ==
    /\ pc = "loop"
    /\ pr_index <= Len(pull_requests)
    /\ is_l1_update(pull_requests[pr_index])
    /\ \E description \in Descriptions :
        /\ l1_updates' = l1_updates \o get_l1_update(description.text)
        /\ processed' = Append(processed, [pr |-> pull_requests[pr_index],
                                           description |-> description,
                                           twitter_username |-> None,
                                           response |-> ""])
    /\ calls' = [calls EXCEPT !.get_issue = @ + 1]
    /\ pr_index' = pr_index + 1
    /\ UNCHANGED <<pc, is_japanese, japanese_authors, messages, raised, written, fetch>>
    /\ UNCHANGED release_vars
    /\ UNCHANGED text_vars
    /\ UNCHANGED diff_vars
    /\ UNCHANGED comment_vars

\* an iteration of the loop on a pull request of another category
SummarisePullRequest ==
    /\ pc = "loop"
    /\ pr_index <= Len(pull_requests)
    /\ ~is_l1_update(pull_requests[pr_index])
    /\ \E description \in Descriptions :
        /\ calls' = [calls EXCEPT
                        !.get_issue = @ + 2,
                        !.get_related_issue = @ + Len(get_related_issues(description.text)),
                        !.get_diff = @ + 1,
                        !.generate_summary = @ + 1,
                        !.get_user = @ + 1,
                        !.generate_is_japanese = @ + 1,
                        !.report = @ + 1]
        /\ \E user \in Users :
            /\ is_japanese' = is_japanese_of(user.response)
            /\ japanese_authors' = authors_after(japanese_authors, pull_requests[pr_index],
                                                 user.twitter_username, is_japanese')
            /\ processed' = Append(processed, [pr |-> pull_requests[pr_index],
                                               description |-> description,
                                               twitter_username |-> user.twitter_username,
                                               response |-> user.response])
    /\ pr_index' = pr_index + 1
    /\ UNCHANGED <<pc, l1_updates, messages, raised, written, fetch>>
    /\ UNCHANGED release_vars
    /\ UNCHANGED text_vars
    /\ UNCHANGED diff_vars
    /\ UNCHANGED comment_vars

\* behind the loop: the messages are built and printed
BuildMessages ==
    /\ pc = "loop"
    /\ pr_index > Len(pull_requests)
    /\ messages' = messages_of(japanese_authors)
    /\ pc' = "done"
    /\ UNCHANGED <<is_japanese, pr_index, l1_updates, japanese_authors, calls, processed,
                   raised, written, fetch>>
    /\ UNCHANGED release_vars
    /\ UNCHANGED text_vars
    /\ UNCHANGED diff_vars
    /\ UNCHANGED comment_vars

NextMain == ReadL1Update \/ SummarisePullRequest \/ BuildMessages

SpecMain == InitMain /\ [][NextMain]_vars

----------------------------------------------------------------------------
(* What the release notes say, read off the page's structure: the headings *)
(* by their text, the items by what was written into them                  *)

HeadingIs(doc, i, tag, text) == doc[i].tag = tag /\ doc[i].string = text

AlphaBefore(doc, i) == \E j \in 1..(i - 1) : HeadingIs(doc, j, "h2", "Alpha modules")

WrittenOf(text) == CHOOSE it \in WrittenItems : it.text = text

\* the well-formed items of the list that follows heading i
SectionItems(doc, i) ==
    LET later == {j \in (i + 1)..Len(doc) : doc[j].tag = "ul"}
    IN  IF later = {} THEN <<>>
        ELSE SelectSeq([k \in 1..Len(doc[Min(later)].li) |-> WrittenOf(doc[Min(later)].li[k])],
                       LAMBDA it : it.wellformed)

WrittenL1(it) == \E extra \in {"", " extra text"} : it.title = L1Prefix \o extra

ExpectedCategory(doc, i, it) ==
    IF HeadingIs(doc, i, "h3", "Features")
    THEN IF WrittenL1(it) THEN "L1"
         ELSE IF AlphaBefore(doc, i) THEN "alpha feature" ELSE "feature"
    ELSE IF AlphaBefore(doc, i) THEN "alpha bug fix" ELSE "bug fix"

\* <<category, title>> of the items of every level-3 heading `text`, in order
ExpectedOf(doc, text) ==
    LET sections == SelectSeq([i \in 1..Len(doc) |-> i],
                              LAMBDA i : HeadingIs(doc, i, "h3", text))
    IN  Concat([n \in 1..Len(sections) |->
                  [k \in 1..Len(SectionItems(doc, sections[n])) |->
                      <<ExpectedCategory(doc, sections[n], SectionItems(doc, sections[n])[k]),
                        SectionItems(doc, sections[n])[k].title>>]])

CategoryTitle(prs) == [k \in 1..Len(prs) |-> <<prs[k].category, prs[k].title>>]

OfCategories(prs, cats) == SelectSeq(prs, LAMBDA pr : pr.category \in cats)

Rank == <<"feature", "L1", "bug fix", "alpha feature", "alpha bug fix">>

RankOf(category) == CHOOSE r \in 1..Len(Rank) : Rank[r] = category

Sections(doc) ==
    {i \in 1..Len(doc) : HeadingIs(doc, i, "h3", "Features") \/ HeadingIs(doc, i, "h3", "Bug Fixes")}

----------------------------------------------------------------------------
(* Claims on get_pull_requests_from_release, under SpecRelease *)

\* C1: the returned list is ordered by non-decreasing rank feature < L1 <
\* bug fix < alpha feature < alpha bug fix, and for every category its
\* entries are exactly the collected entries of that category in the order of
\* their extraction (a stable permutation of the collected entries).
C1_StableSortByCategory ==
    pc = "done" =>
        /\ Len(pull_requests) = Len(collected)
        /\ \A k \in 1..Len(pull_requests) : pull_requests[k].category \in {Rank[r] : r \in 1..Len(Rank)}
        /\ \A k \in 1..(Len(pull_requests) - 1) :
              RankOf(pull_requests[k].category) <= RankOf(pull_requests[k + 1].category)
        /\ \A r \in 1..Len(Rank) :
              OfCategories(pull_requests, {Rank[r]}) = OfCategories(collected, {Rank[r]})

\* the sort moved an entry, and two different entries of one category kept
\* their order
C1_Witness ==
    /\ pc = "done"
    /\ pull_requests # collected
    /\ \E k \in 1..(Len(pull_requests) - 1) :
          /\ pull_requests[k].category = pull_requests[k + 1].category
          /\ pull_requests[k].title # pull_requests[k + 1].title

\* C2: a page with no level-3 "Features" and no level-3 "Bug Fixes" heading
\* yields the empty list and no error.
C2_NoSectionsEmpty ==
    (pc = "done" /\ Sections(document) = {}) => (pull_requests = <<>> /\ raised = "none")

\* a page with a level-2 "Features" heading and a list of items, but no
\* qualifying level-3 heading, was parsed
C2_Witness ==
    /\ pc = "done"
    /\ Sections(document) = {}
    /\ \E i \in 1..Len(document) : HeadingIs(document, i, "h2", "Features")
    /\ \E i \in 1..Len(document) : document[i].tag = "ul"

\* C3: the non-L1 items of a Features / Bug Fixes heading that an "Alpha
\* modules" level-2 heading precedes are returned as alpha feature / alpha
\* bug fix, those of a heading that none precedes as feature / bug fix, and
\* no entry is alpha unless such a heading precedes a section.
C3_AlphaIffPrecedingHeading ==
    pc = "done" =>
        /\ \A i \in Sections(document) :
              \A k \in 1..Len(SectionItems(document, i)) :
                  LET it == SectionItems(document, i)[k]
                      base == IF HeadingIs(document, i, "h3", "Features")
                              THEN "feature" ELSE "bug fix"
                      want == IF AlphaBefore(document, i) THEN "alpha " \o base ELSE base
                  IN  \/ (WrittenL1(it) /\ base = "feature")
                      \/ \E n \in 1..Len(pull_requests) :
                            pull_requests[n].category = want /\ pull_requests[n].title = it.title
        /\ \A n \in 1..Len(pull_requests) :
              (pull_requests[n].category \in {"alpha feature", "alpha bug fix"}
                  => \E i \in Sections(document) : AlphaBefore(document, i))
              /\ (pull_requests[n].category \in {"feature", "bug fix"}
                  => \E i \in Sections(document) : ~AlphaBefore(document, i))

\* a section ahead of the "Alpha modules" heading and one behind it both
\* contributed
C3_Witness ==
    /\ pc = "done"
    /\ \E i, j \in Sections(document) :
          /\ ~AlphaBefore(document, i) /\ AlphaBefore(document, j)
          /\ SectionItems(document, i) # <<>> /\ SectionItems(document, j) # <<>>
    /\ \E n, m \in 1..Len(pull_requests) :
          pull_requests[n].category = "feature" /\ pull_requests[m].category = "alpha feature"

\* C4: the entries of the Features sections are, in extraction order, L1 for
\* every title that begins with the L1 prefix (alpha context or not), and
\* otherwise alpha feature in alpha context and feature outside it.
C4_FeaturesCategories ==
    pc = "done" =>
        CategoryTitle(OfCategories(collected, {"feature", "L1", "alpha feature"}))
            = ExpectedOf(document, "Features")

\* an L1 update with trailing text and an alpha feature came out of a
\* Features section in alpha context
C4_Witness ==
    /\ pc = "done"
    /\ \E i \in Sections(document) :
          /\ HeadingIs(document, i, "h3", "Features") /\ AlphaBefore(document, i)
          /\ \E k \in 1..Len(SectionItems(document, i)) :
                SectionItems(document, i)[k] = ItemL1Extra
    /\ \E n \in 1..Len(pull_requests) :
          pull_requests[n].category = "L1" /\ pull_requests[n].title = ItemL1Extra.title
    /\ \E n \in 1..Len(pull_requests) : pull_requests[n].category = "alpha feature"

\* C5: the entries of the Bug Fixes sections are, in extraction order, alpha
\* bug fix in alpha context and bug fix outside it, also for a title that
\* begins with the L1 prefix.
C5_BugFixCategories ==
    pc = "done" =>
        CategoryTitle(OfCategories(collected, {"bug fix", "alpha bug fix"}))
            = ExpectedOf(document, "Bug Fixes")

\* an item titled as an L1 update came out of a Bug Fixes section as a bug
\* fix, and one out of a section in alpha context as an alpha bug fix
C5_Witness ==
    /\ pc = "done"
    /\ \E n \in 1..Len(pull_requests) :
          pull_requests[n].category = "bug fix" /\ pull_requests[n].title = L1Prefix
    /\ \E n \in 1..Len(pull_requests) :
          pull_requests[n].category = "alpha bug fix" /\ pull_requests[n].title = L1Prefix

\* C6: every returned entry carries the title and the number of one written
\* item "<title> (#<number>)": the title ahead of the parenthesised suffix and
\* the digits inside that suffix.
C6_TitleAndNumberOfSuffix ==
    pc = "done" =>
        \A n \in 1..Len(pull_requests) :
            \E it \in WrittenItems :
                /\ it.wellformed
                /\ pull_requests[n].title = it.title
                /\ pull_requests[n].pr_number = it.pr

----------------------------------------------------------------------------
(* Claims on get_l1_update, under SpecL1 *)

TokensOf(pieces, kind) ==
    LET of == SelectSeq(pieces, LAMBDA piece : piece.kind = kind)
    IN  [k \in 1..Len(of) |-> of[k].token]

\* C7: the result is the tokens of the "[+] resource" lines in the order
\* written, then the tokens of the "[+] service" lines in the order written,
\* one element per line (duplicates kept); lines without a marker add nothing.
C7_ResourcesThenServices ==
    pc = "done" => new_resources = TokensOf(written, "resource") \o TokensOf(written, "service")

\* a service line written ahead of a resource line, and a token written twice
C7_Witness ==
    /\ pc = "done"
    /\ \E i, j \in 1..Len(written) :
          i < j /\ written[i].kind = "service" /\ written[j].kind = "resource"
    /\ \E i, j \in 1..Len(new_resources) : i < j /\ new_resources[i] = new_resources[j]

----------------------------------------------------------------------------
(* Claims on get_related_issues, under SpecIssues *)

\* C8: the result is the numbers of the references written with one of the
\* nine closing verbs, in any letter case, in the order written, one element
\* per reference; a "#<number>" written behind anything else is not returned.
C8_ClosingReferencesInOrder ==
    pc = "done" =>
        LET closing == SelectSeq(written, LAMBDA piece : piece.word \in ClosingVerbs)
        IN  issues = [k \in 1..Len(closing) |-> closing[k].number]

----------------------------------------------------------------------------
(* Claims on get_related_issues, under SpecSeparators *)

\* C17: a closing verb followed by one whitespace character, be it a space,
\* a tab or a newline, and "#<digits>" is a closing reference: the result is
\* the numbers of all the references written, in the order written.
C17_AnyWhitespaceSeparator ==
    pc = "done" => issues = [k \in 1..Len(written) |-> written[k].number]

----------------------------------------------------------------------------
(* Claims on filter_diff, under SpecDiff *)

\* whether the header of a file is one the pattern excludes, by its path
ExcludedPath(path, pattern) ==
    CASE pattern = "\\.snapshot" -> path \in {"t/x.snapshot"}
      [] pattern = "lib.a" -> path \in {"lib/a.py"}
      [] OTHER -> FALSE

\* the header line that line k of the diff belongs to, 0 ahead of the first
HeaderOf(lines, k) ==
    LET before == {h \in 1..k : lines[h].header}
    IN  IF before = {} THEN 0 ELSE CHOOSE h \in before : \A g \in before : g <= h

\* the lines of the files whose header the pattern does not exclude
KeptLines(lines, pattern) ==
    SelectSeq([k \in 1..Len(lines) |-> [text |-> lines[k].text, of |-> HeaderOf(lines, k)]],
              LAMBDA line : line.of # 0 /\ ~ExcludedPath(lines[line.of].path, pattern))

HasHeader(lines) == \E k \in 1..Len(lines) : lines[k].header

\* C9: a diff without a "diff --git" line is returned unchanged, whatever the
\* exclusion pattern, also when the marker occurs inside a line.
C9_NoMarkerUnchanged ==
    (pc = "done" /\ ~HasHeader(written)) => (filtered = diff_content /\ raised = "none")

\* a diff whose only marker is inside a line went through the filter with a
\* pattern that matches it
C9_Witness ==
    /\ pc = "done"
    /\ ~HasHeader(written)
    /\ exclude_pattern = "\\.snapshot"
    /\ \E k \in 1..Len(written) : written[k] = Body(" diff --git a/lib/a.py b/t/x.snapshot")
    /\ filtered = diff_content

\* C10: of a diff with a "diff --git" line the result is the chunks whose
\* header line the pattern does not match, whole and in their order with
\* nothing between them, whatever their later lines hold; it is the empty
\* string if no chunk is kept.
C10_KeptChunksByFirstLine ==
    (pc = "done" /\ HasHeader(written) /\ raised = "none") =>
        filtered = JoinTexts(KeptLines(written, exclude_pattern), "")

\* a chunk was dropped for its header, and a chunk was kept whose later line
\* the pattern matches
C10_Witness ==
    /\ pc = "done"
    /\ raised = "none"
    /\ exclude_pattern = "\\.snapshot"
    /\ \E k \in 1..Len(written) : written[k] = Header("t/x.snapshot")
    /\ \E k \in 2..Len(written) :
          written[k - 1] = Header("lib/a.py") /\ written[k] = Body("+lib/a.snapshot")
    /\ filtered # ""
    /\ filtered # diff_content

\* the positions in the diff's lines of the "diff --git" lines
HeaderLines(lines) == SelectSeq([k \in 1..Len(lines) |-> k], LAMBDA k : lines[k].header)

\* the text of the chunk of header line h: its lines up to the next header
ChunkText(lines, h) ==
    JoinTexts(SelectSeq([k \in 1..Len(lines) |-> [text |-> lines[k].text, of |-> HeaderOf(lines, k)]],
                        LAMBDA line : line.of = h), "")

\* the chunks of the header lines in `chosen`, in the order of the diff
ChunksJoined(lines, chosen) ==
    JoinTexts([n \in 1..Len(SelectSeq(HeaderLines(lines), LAMBDA h : h \in chosen)) |->
                  [text |-> ChunkText(lines, SelectSeq(HeaderLines(lines), LAMBDA h : h \in chosen)[n])]],
              "")

\* the lines written ahead of the first "diff --git" line
Preamble(lines) ==
    JoinTexts(SelectSeq([k \in 1..Len(lines) |-> [text |-> lines[k].text, of |-> HeaderOf(lines, k)]],
                        LAMBDA line : line.of = 0), "")

\* C21: of a diff with a "diff --git" line the result is some of the diff's
\* chunks, each whole, in their order: it is never longer than the diff, it
\* starts with a marker unless it is empty, and the text ahead of the first
\* marker is left out even when the pattern excludes no chunk, the result
\* then being the diff without that text.
C21_OnlyWholeChunks ==
    (pc = "done" /\ HasHeader(written) /\ raised = "none") =>
        /\ \E chosen \in SUBSET {k \in 1..Len(written) : written[k].header} :
              filtered = ChunksJoined(written, chosen)
        /\ Len(filtered) <= Len(diff_content)
        /\ filtered = "" \/ LitAt(filtered, 1, "diff --git")
        /\ (\A k \in 1..Len(written) :
               written[k].header => ~ExcludedPath(written[k].path, exclude_pattern))
           => /\ Preamble(written) \o filtered = diff_content
              /\ Len(filtered) = Len(diff_content) - Len(Preamble(written))

\* a diff with two lines ahead of its first marker went through the filter
\* with a pattern that excludes none of its chunks, and came out shorter
C21_Witness ==
    /\ pc = "done"
    /\ raised = "none"
    /\ exclude_pattern = "\\.snapshot"
    /\ Len(written) = 4
    /\ written[1] = Body("+lib/a.snapshot")
    /\ written[2] = Body(" diff --git a/lib/a.py b/t/x.snapshot")
    /\ written[3] = Header("lib/a.py")
    /\ written[4] = Body("+lib/a.snapshot")
    /\ filtered = Header("lib/a.py").text \o Body("+lib/a.snapshot").text
    /\ Len(filtered) < Len(diff_content)

\* C11: a call with the pattern "[", which does not compile, ends with the
\* pattern-syntax error, whatever the diff.
C11_InvalidPatternRaises ==
    (pc = "done" /\ exclude_pattern = "[") => raised = "re.error"

\* C12: the filter run on its own output, with the same pattern, returns
\* that output.
C12_Idempotent ==
    pc = "again" => (raised = "none" /\ filtered = diff_content)

\* the first run dropped a file and kept two, and the second run had the
\* two to go through
C12_Witness ==
    /\ pc = "again"
    /\ exclude_pattern = "\\.snapshot"
    /\ Len(SelectSeq(written, LAMBDA line : line.header /\ line.path = "lib/a.py")) >= 2
    /\ \E k \in 1..Len(written) : written[k] = Header("t/x.snapshot")
    /\ filtered = diff_content
    /\ filtered # ""

----------------------------------------------------------------------------
(* Claims on the page's structure, under SpecRelease *)

\* the level-2 heading nearest before element i is "Alpha modules"
NearestH2IsAlpha(doc, i) ==
    LET before == {j \in 1..(i - 1) : doc[j].tag = "h2"}
    IN  before # {} /\ HeadingIs(doc, CHOOSE j \in before : \A m \in before : m <= j,
                                 "h2", "Alpha modules")

\* the well-formed items of the list that follows heading i with no heading
\* in between
OwnedItems(doc, i) ==
    IF i < Len(doc) /\ doc[i + 1].tag = "ul"
    THEN SelectSeq([k \in 1..Len(doc[i + 1].li) |-> WrittenOf(doc[i + 1].li[k])],
                   LAMBDA it : it.wellformed)
    ELSE <<>>

SectionsOf(doc, text) ==
    SelectSeq([i \in 1..Len(doc) |-> i], LAMBDA i : HeadingIs(doc, i, "h3", text))

\* C15: a Features or Bug Fixes section is in alpha context exactly when the
\* level-2 heading nearest before it is "Alpha modules": every collected
\* entry is alpha exactly when some section whose list holds its title has
\* such a nearest heading, so a page none of whose sections has one yields
\* no alpha entry.
C15_AlphaByNearestHeading ==
    pc = "done" =>
        \A k \in 1..Len(collected) :
            collected[k].category \in {"alpha feature", "alpha bug fix"} =>
                \E i \in Sections(document) :
                    /\ NearestH2IsAlpha(document, i)
                    /\ \E n \in 1..Len(SectionItems(document, i)) :
                           SectionItems(document, i)[n].title = collected[k].title

\* C16: a heading owns only the list that follows it before the next
\* heading: the collected titles are those of the lists that directly follow
\* the Features headings, then those that directly follow the Bug Fixes
\* headings; a heading followed by another heading adds nothing.
C16_HeadingOwnsOnlyItsList ==
    pc = "done" =>
        [k \in 1..Len(collected) |-> collected[k].title]
            = Concat([n \in 1..Len(SectionsOf(document, "Features")) |->
                        [k \in 1..Len(OwnedItems(document, SectionsOf(document, "Features")[n])) |->
                            OwnedItems(document, SectionsOf(document, "Features")[n])[k].title]])
              \o Concat([n \in 1..Len(SectionsOf(document, "Bug Fixes")) |->
                        [k \in 1..Len(OwnedItems(document, SectionsOf(document, "Bug Fixes")[n])) |->
                            OwnedItems(document, SectionsOf(document, "Bug Fixes")[n])[k].title]])

----------------------------------------------------------------------------
(* Claims on filter_comments_by_user, under SpecComments *)

\* C13: the result is the bodies of the comments of user type "User", in
\* the order of the input, empty and repeated bodies included; comments of
\* another user type add nothing.
C13_BodiesOfUserComments ==
    pc = "done" =>
        LET users == SelectSeq(comments_data, LAMBDA c : c.user.type = "User")
        IN  comments = [k \in 1..Len(users) |-> users[k].body]

\* an organization's comment between two user comments of the same, empty
\* body was left out
C13_Witness ==
    /\ pc = "done"
    /\ comments_data = <<Comment("User", ""), Comment("Organization", "LGTM"), Comment("User", "")>>
    /\ comments = <<"", "">>

----------------------------------------------------------------------------
(* Claims on a failed fetch, under SpecFetch *)

\* C14: when requests.get raises, the call ends with that exception: nothing
\* is parsed or collected and no list is returned.
C14_FetchErrorPropagates ==
    (pc = "done" /\ fetch # "ok") =>
        (raised = fetch /\ collected = <<>> /\ pull_requests = <<>>)

\* a call ended with the RequestException of the fetch
C14_Witness ==
    pc = "done" /\ fetch = "RequestException" /\ raised = "RequestException"

----------------------------------------------------------------------------
(* Claims on validate_is_japanese, under SpecValidate *)

\* C18: the call returns True exactly for the text "1", False exactly for
\* the text "0", and raises AssertionError for every other text: the empty
\* text, a longer text, a text with whitespace or a newline around the digit.
C18_OnlyZeroOrOne ==
    pc = "done" =>
        /\ content = "1" => (raised = "none" /\ is_japanese)
        /\ content = "0" => (raised = "none" /\ ~is_japanese)
        /\ content \notin {"0", "1"} => raised = "AssertionError"

----------------------------------------------------------------------------
(* Claims on main's loop, under SpecMain *)

ProcessedL1 == SelectSeq(processed, LAMBDA it : it.pr.category = "L1")

ProcessedOther == SelectSeq(processed, LAMBDA it : it.pr.category # "L1")

\* the closing references written in the descriptions of the pull requests
\* that are not L1
ClosingReferencesOfOther ==
    Concat([k \in 1..Len(ProcessedOther) |->
               SelectSeq(ProcessedOther[k].description.references,
                         LAMBDA piece : piece.word \in ClosingVerbs)])

\* C19: an L1 pull request is never summarised: the L1 update list is the
\* tokens of the descriptions of the L1 pull requests processed, and the
\* related issues fetched, the diffs fetched, the summary calls, the
\* is-Japanese calls and the reports are those of the other pull requests,
\* one summary call each; only the issue of an L1 pull request is fetched.
C19_L1NeverSummarised ==
    /\ l1_updates = Concat([k \in 1..Len(ProcessedL1) |->
                              TokensOf(ProcessedL1[k].description.additions, "resource")
                              \o TokensOf(ProcessedL1[k].description.additions, "service")])
    /\ calls.generate_summary = Len(ProcessedOther)
    /\ calls.get_diff = Len(ProcessedOther)
    /\ calls.get_user = Len(ProcessedOther)
    /\ calls.generate_is_japanese = Len(ProcessedOther)
    /\ calls.report = Len(ProcessedOther)
    /\ calls.get_related_issue = Len(ClosingReferencesOfOther)
    /\ calls.get_issue = Len(ProcessedL1) + 2 * Len(ProcessedOther)

\* an L1 pull request whose description holds additions and closing
\* references, then a bug fix with the same description, were processed
C19_Witness ==
    /\ pc = "done"
    /\ Len(processed) = 2
    /\ processed[1].pr.category = "L1"
    /\ processed[2].pr.category = "bug fix"
    /\ processed[1].description.additions # <<>>
    /\ processed[2].description = processed[1].description
    /\ l1_updates = <<"R1", "S1">>
    /\ calls.generate_summary = 1
    /\ calls.get_related_issue = 2

\* the pull requests processed that count for an author
CountedFor(author) ==
    Len(SelectSeq(processed,
                  LAMBDA it : /\ it.pr.category \in {"bug fix", "alpha feature", "alpha bug fix"}
                              /\ it.twitter_username = author
                              /\ it.response = "1"))

\* the count the dict holds for an author, 0 for no entry
StoredFor(author) ==
    LET at == {k \in 1..Len(japanese_authors) : japanese_authors[k].author = author}
    IN  IF at = {} THEN 0 ELSE japanese_authors[CHOOSE k \in at : TRUE].count

\* C20: for every key the dict holds the number of processed pull requests of
\* category bug fix, alpha feature or alpha bug fix whose author has that
\* Twitter username and was validated as Japanese; nothing else adds or
\* changes an entry, every count is at least 1, no response ends the run
\* with an exception, and a message has the "(N件)" suffix exactly when the
\* count is above 1.
C20_RepeatAuthorCounts ==
    /\ raised = "none"
    /\ \A k \in 1..Len(japanese_authors) :
          /\ japanese_authors[k].count >= 1
          /\ japanese_authors[k].author \notin {None, ""}
          /\ \A m \in 1..Len(japanese_authors) :
                japanese_authors[m].author = japanese_authors[k].author => m = k
    /\ \A user \in Users :
          StoredFor(user.twitter_username)
              = (IF user.twitter_username \in {None, ""} THEN 0
                 ELSE CountedFor(user.twitter_username))
    /\ pc = "done" =>
          /\ Len(messages) = Len(japanese_authors)
          /\ \A k \in 1..Len(messages) :
                messages[k] = "@" \o japanese_authors[k].author
                              \o (IF japanese_authors[k].count > 1
                                  THEN " (" \o ToString(japanese_authors[k].count) \o "件)"
                                  ELSE "")

\* two pull requests of one Japanese author were counted, and the message
\* carries the count
C20_Witness ==
    /\ pc = "done"
    /\ Len(processed) = 2
    /\ processed[1].pr.category = "bug fix"
    /\ processed[2].pr.category = "alpha feature"
    /\ japanese_authors = <<[author |-> "a", count |-> 2]>>
    /\ messages = <<"@a (2件)">>

====
